---- MODULE Spec2Model ----
(***************************************************************************)
(* Model of sage/dynamics/interval_exchanges/constructors.py: the class    *)
(* factories Permutation and GeneralizedPermutation and the normaliser     *)
(* _two_lists.  A Python value is a record [ty, v, xs]: ty is the name of  *)
(* its class, v the characters of a str (or the digits of an int, the      *)
(* truth digit of a bool), xs the elements of a container or the           *)
(* attributes of an object.                                                *)
(***************************************************************************)
EXTENDS Integers, Sequences, FiniteSets, TLC

VARIABLES pc, fn, args, kargs, outcome, run

vars == <<pc, fn, args, kargs, outcome, run>>

\* ------------------------------------------------------------------ bounds
MaxRowLen == 2
MaxAltLen == 1
MaxStrLen == 4
MaxContainerLen == 3
MaxLengths == 3
MaxIntervals == 3

\* ----------------------------------------------------------- Python values
NL == "\n"
SP == " "

Val(ty, v, xs) == [ty |-> ty, v |-> v, xs |-> xs]
None      == Val("NoneType", <<>>, <<>>)
PyTrue    == Val("bool", <<"1">>, <<>>)
PyFalse   == Val("bool", <<"0">>, <<>>)
Str(cs)   == Val("str", cs, <<>>)
Digit     == <<"1", "2", "3", "4", "5", "6", "7", "8", "9">>
PyInt(n)  == Val("int", <<Digit[n]>>, <<>>)
List(xs)  == Val("list", <<>>, xs)
Tuple(xs) == Val("tuple", <<>>, xs)
\* a group-theoretic permutation (sage.combinat.permutation.Permutation)
CombPerm(xs) == Val("Permutation", <<>>, xs)

Raise(exc, msg) == [kind |-> "raise", exc |-> exc, msg |-> msg, via |-> "", val |-> None]
Return(via, val) == [kind |-> "return", exc |-> "", msg |-> "", via |-> via, val |-> val]
NoOutcome == [kind |-> "none", exc |-> "", msg |-> "", via |-> "", val |-> None]

\* ------------------------------------------------------- sequence helpers
Range(s) == {s[i] : i \in 1..Len(s)}

\* list.count
Count(s, x) == Cardinality({i \in 1..Len(s) : s[i] = x})

\* list.index (1-based; 0 when absent, where Python raises ValueError)
Index(s, x) ==
    IF \E i \in 1..Len(s) : s[i] = x
    THEN CHOOSE i \in 1..Len(s) : s[i] = x /\ \A j \in 1..(i - 1) : s[j] # x
    ELSE 0

\* del s[i]
DelAt(s, i) == SubSeq(s, 1, i - 1) \o SubSeq(s, i + 1, Len(s))

\* str.split('\n'): empty pieces are kept
RECURSIVE SplitLines(_)
SplitLines(cs) ==
    LET i == Index(cs, NL)
    IN  IF i = 0 THEN <<cs>>
        ELSE <<SubSeq(cs, 1, i - 1)>> \o SplitLines(SubSeq(cs, i + 1, Len(cs)))

IsSpace(c) == c \in {SP, NL}

\* str.split(): runs of whitespace separate, empty pieces are dropped
RECURSIVE SplitWs(_)
SplitWs(cs) ==
    IF cs = <<>> THEN <<>>
    ELSE IF IsSpace(cs[1]) THEN SplitWs(Tail(cs))
    ELSE LET stops == {i \in 1..Len(cs) : IsSpace(cs[i])}
             e == IF stops = {} THEN Len(cs) + 1
                  ELSE CHOOSE i \in stops : \A j \in stops : i <= j
         IN  <<Str(SubSeq(cs, 1, e - 1))>> \o SplitWs(SubSeq(cs, e, Len(cs)))

\* as HasLen, with a length found on every value
HasLenAlways(a) == a.ty = a.ty

\* hasattr(a, '__len__')
HasLen(a) == a.ty \in {"str", "list", "tuple", "Permutation"}

\* the rows of a group-theoretic permutation
PermRows(a) == << [i \in 1..Len(a.xs) |-> PyInt(i)], a.xs >>

\* one row of a pair: a str is split, anything else goes through list()
RowFails(x) == x.ty \notin {"str", "list", "tuple", "Permutation"}
RowOf(x) == IF x.ty = "str" THEN SplitWs(x.v) ELSE x.xs

PairRows(a) ==
    IF RowFails(a.xs[1]) \/ RowFails(a.xs[2])
    THEN Raise("TypeError", "object is not iterable")
    ELSE Return("", List(<<List(RowOf(a.xs[1])), List(RowOf(a.xs[2]))>>))

TwoLists(a) ==
    IF a.ty = "str" THEN
        LET ls == SplitLines(a.v)
        IN  IF Len(ls) # 2
            THEN Raise("ValueError", "your chain must contain two lines")
            ELSE Return("", List(<<List(SplitWs(ls[1])), List(SplitWs(ls[2]))>>))
    ELSE IF a.ty = "Permutation" THEN
        Return("", List(<<List(PermRows(a)[1]), List(PermRows(a)[2])>>))
    ELSE IF ~HasLen(a) THEN Raise("TypeError", "argument not accepted")
    ELSE IF Len(a.xs) = 0 \/ Len(a.xs) > 2 THEN
        Raise("ValueError", "your argument can not be split in two parts")
    ELSE IF Len(a.xs) = 1 THEN
        LET b == a.xs[1]
        IN  IF b.ty = "Permutation" THEN
                Return("", List(<<List(PermRows(b)[1]), List(PermRows(b)[2])>>))
            ELSE IF b.ty \in {"list", "tuple"} THEN
                IF Len(b.xs) # 2
                THEN Raise("ValueError", "your list must contain two objects")
                ELSE PairRows(b)
            ELSE Raise("TypeError", "argument not accepted")
    ELSE PairRows(a)

\* --------------------------------------------- the permutation objects
\* An object of one of the eight variant classes carries what its
\* constructor received: the pair of rows, the alphabet and the flips.
Obj(cls, a, alphabet, flips) == Val(cls, <<>>, <<a, alphabet, flips>>)

LabelledClasses ==
    {"LabelledPermutationIET", "FlippedLabelledPermutationIET",
     "LabelledPermutationLI", "FlippedLabelledPermutationLI"}
ReducedClasses ==
    {"ReducedPermutationIET", "FlippedReducedPermutationIET",
     "ReducedPermutationLI", "FlippedReducedPermutationLI"}
FlippedClasses ==
    {"FlippedLabelledPermutationIET", "FlippedReducedPermutationIET",
     "FlippedLabelledPermutationLI", "FlippedReducedPermutationLI"}
ExchangeClasses ==
    {"LabelledPermutationIET", "FlippedLabelledPermutationIET",
     "ReducedPermutationIET", "FlippedReducedPermutationIET"}

\* isinstance(x, LabelledPermutation), isinstance(x, ReducedPermutation)
IsLabelledPermutation(x) == x.ty \in LabelledClasses
IsReducedPermutation(x) == x.ty \in ReducedClasses

\* the class of a variant
ClassName(reduced, flipped, kind) ==
    (IF flipped THEN "Flipped" ELSE "") \o
    (IF reduced THEN "Reduced" ELSE "Labelled") \o "Permutation" \o kind

\* a variant constructor called as cls(a, alphabet=alphabet[, flips=flips])
Construct(cls, a, alphabet, flips) == Return("construct", Obj(cls, a, alphabet, flips))

\* p.list()
ListMethod(p) == p.xs[1]

\* p.reduced(): the reduced counterpart, flipped when p is
ReducedMethod(p) ==
    Obj(ClassName(TRUE, p.ty \in FlippedClasses,
                  IF p.ty \in ExchangeClasses THEN "IET" ELSE "LI"),
        p.xs[1], p.xs[2], p.xs[3])

\* copy(p)
Copy(p) == p

\* template.PermutationIET / template.PermutationLI called with a pair of
\* rows and the keywords reduced, flips, alphabet: the variant is rebuilt
TemplatePermutation(kind, a, reduced, flips, alphabet) ==
    Return("rebuild",
           Obj(ClassName(reduced, flips # <<>>, kind), a, alphabet,
               IF flips # <<>> THEN List(flips) ELSE None))

\* ------------------------------------------------------ keyword options
\* kargs is [has, reduced, flips, alphabet]: has is the set of keywords given
Kargs(has, reduced, flips, alphabet) ==
    [has |-> has, reduced |-> reduced, flips |-> flips, alphabet |-> alphabet]

\* as ReducedIsBad, with any str taken for a boolean
ReducedIsBadButStr(k) == "reduced" \in k.has /\ k.reduced.ty \notin {"bool", "str"}

\* 'reduced' in kargs and not isinstance(kargs["reduced"], bool)
ReducedIsBad(k) == "reduced" \in k.has /\ k.reduced.ty # "bool"

\* reduction, with the value it takes when the keyword is absent
Reduction(k, default) == IF "reduced" \notin k.has THEN default ELSE k.reduced

\* list(kargs['flips']), [] when absent
ListOf(x) == IF x.ty = "str" THEN [i \in 1..Len(x.v) |-> Str(<<x.v[i]>>)] ELSE x.xs
FlipsOf(k) == IF "flips" \notin k.has THEN <<>> ELSE ListOf(k.flips)

AlphabetOf(k) == IF "alphabet" \notin k.has THEN None ELSE k.alphabet

\* truth value of reduction (None, True or False)
Truthy(x) == x = PyTrue

\* ------------------------------------------------------------ Permutation
\* as ConvertLabelledIET, with the copy returned whatever reduction is
ConvertLabelledIETAlwaysCopy(p, reduction, flips, alphabet) ==
    IF flips = <<>> THEN Return("copy", Copy(p))
    ELSE TemplatePermutation("IET", ListMethod(p), reduction \in {None, PyFalse},
                             flips, alphabet)

\* conversion of an existing object p (the case len(args) == 1)
ConvertLabelledIET(p, reduction, flips, alphabet) ==
    IF flips = <<>> THEN
        IF reduction = None \/ ~Truthy(reduction)
        THEN Return("copy", Copy(p))
        ELSE Return("reduced", ReducedMethod(p))
    ELSE TemplatePermutation("IET", ListMethod(p), reduction \in {None, PyFalse},
                             flips, alphabet)

ConvertReducedIET(p, reduction, flips, alphabet) ==
    IF flips = <<>> THEN
        IF reduction = None \/ Truthy(reduction)
        THEN Return("copy", Copy(p))
        ELSE TemplatePermutation("IET", ListMethod(p), TRUE, <<>>, None)
    ELSE TemplatePermutation("IET", ListMethod(p), reduction \in {None, PyTrue},
                             flips, alphabet)

\* for letter in flips: letter in letters
FlipsValid(flips, letters) == \A i \in 1..Len(flips) : flips[i] \in letters

\* as OnceInEachRow, with the count in the second row forgotten
OnceInFirstRow(a0, a1, letters) == \A x \in letters : Count(a0, x) = 1

\* for letter in letters: a[0].count(letter) == 1 and a[1].count(letter) == 1
OnceInEachRow(a0, a1, letters) ==
    \A x \in letters : Count(a0, x) = 1 /\ Count(a1, x) = 1

\* as SelectVariantIET, with the labelled class for the flipped reduced one
SelectVariantIETFlippedLabelled(a, reduction, flips, alphabet) ==
    IF flips = <<>>
    THEN IF Truthy(reduction)
         THEN Construct("ReducedPermutationIET", a, alphabet, None)
         ELSE Construct("LabelledPermutationIET", a, alphabet, None)
    ELSE Construct("FlippedLabelledPermutationIET", a, alphabet, List(flips))

\* the variant built from validated rows
SelectVariantIET(a, reduction, flips, alphabet) ==
    IF Truthy(reduction) THEN
        IF flips = <<>>
        THEN Construct("ReducedPermutationIET", a, alphabet, None)
        ELSE Construct("FlippedReducedPermutationIET", a, alphabet, List(flips))
    ELSE
        IF flips = <<>>
        THEN Construct("LabelledPermutationIET", a, alphabet, None)
        ELSE Construct("FlippedLabelledPermutationIET", a, alphabet, List(flips))

\* as BuildIET, with the two checks in the other order
BuildIETCountsFirst(x, reduction, flips, alphabet) ==
    LET n == TwoLists(x)
    IN  IF n.kind = "raise" THEN n
        ELSE LET a0 == n.val.xs[1].xs
                 a1 == n.val.xs[2].xs
                 letters == Range(a0 \o a1)
             IN  IF ~OnceInEachRow(a0, a1, letters)
                 THEN Raise("ValueError", "letters must appear once in each interval")
                 ELSE IF ~FlipsValid(flips, letters)
                 THEN Raise("ValueError", "flips contains not valid letters")
                 ELSE SelectVariantIET(n.val, reduction, flips, alphabet)

\* the fresh-build path of Permutation on the normalised raw value x
BuildIET(x, reduction, flips, alphabet) ==
    LET n == TwoLists(x)
    IN  IF n.kind = "raise" THEN n
        ELSE LET a0 == n.val.xs[1].xs
                 a1 == n.val.xs[2].xs
                 letters == Range(a0 \o a1)
             IN  IF ~FlipsValid(flips, letters)
                 THEN Raise("ValueError", "flips contains not valid letters")
                 ELSE IF ~OnceInEachRow(a0, a1, letters)
                 THEN Raise("ValueError", "letters must appear once in each interval")
                 ELSE SelectVariantIET(n.val, reduction, flips, alphabet)

\* Permutation(*args, **kargs)
Permutation(as, k) ==
    IF ReducedIsBad(k) THEN Raise("TypeError", "reduced must be of type boolean")
    ELSE LET reduction == Reduction(k, None)
             flips == FlipsOf(k)
             alphabet == AlphabetOf(k)
         IN  IF Len(as) = 1 /\ IsLabelledPermutation(as[1])
             THEN ConvertLabelledIET(as[1], reduction, flips, alphabet)
             ELSE IF Len(as) = 1 /\ IsReducedPermutation(as[1])
             THEN ConvertReducedIET(as[1], reduction, flips, alphabet)
             ELSE BuildIET(IF Len(as) = 1 THEN as[1] ELSE Tuple(as),
                           reduction, flips, alphabet)

\* --------------------------------------------------- GeneralizedPermutation
ConvertLabelledLI(p, reduction, flips, alphabet) ==
    IF flips = <<>> THEN
        IF reduction = None \/ ~Truthy(reduction)
        THEN Return("copy", Copy(p))
        ELSE Return("reduced", ReducedMethod(p))
    ELSE TemplatePermutation("LI", ListMethod(p), reduction \in {None, PyFalse},
                             flips, alphabet)

ConvertReducedLI(p, reduction, flips, alphabet) ==
    IF flips = <<>> THEN
        IF reduction = None \/ Truthy(reduction)
        THEN Return("copy", Copy(p))
        ELSE TemplatePermutation("LI", ListMethod(p), TRUE, <<>>, None)
    ELSE TemplatePermutation("LI", ListMethod(p), reduction \in {None, PyTrue},
                             flips, alphabet)

\* for letter in flips: letter in letters
FlipListValid(flips, letters) == \A i \in 1..Len(flips) : flips[i] \in letters

SelectVariantLI(a, reduction, flips, alphabet) ==
    IF Truthy(reduction) THEN
        IF flips = <<>>
        THEN Construct("ReducedPermutationLI", a, alphabet, None)
        ELSE Construct("FlippedReducedPermutationLI", a, alphabet, List(flips))
    ELSE
        IF flips = <<>>
        THEN Construct("LabelledPermutationLI", a, alphabet, None)
        ELSE Construct("FlippedLabelledPermutationLI", a, alphabet, List(flips))

\* as TwiceInTotal, with "at most twice" for "twice"
AtMostTwiceInTotal(l, letters) == \A x \in letters : Count(l, x) <= 2

\* for letter in letters: l.count(letter) == 2
TwiceInTotal(l, letters) == \A x \in letters : Count(l, x) = 2

\* as Residual, with the deletion from b1 forgotten
RECURSIVE ResidualFirstRowOnly(_, _, _)
ResidualFirstRowOnly(b0, b1, ord) ==
    IF ord = <<>> THEN [ok |-> TRUE, b0 |-> b0, b1 |-> b1]
    ELSE LET x == Head(ord)
         IN  IF Count(b0, x) = 1
             THEN ResidualFirstRowOnly(DelAt(b0, Index(b0, x)), b1, Tail(ord))
             ELSE ResidualFirstRowOnly(b0, b1, Tail(ord))

\* the residual rows b0, b1: for letter in letters (in the order ord), a
\* letter counted once in b0 is deleted from b0 and from b1; ok is FALSE
\* when b1.index(letter) finds nothing
RECURSIVE Residual(_, _, _)
Residual(b0, b1, ord) ==
    IF ord = <<>> THEN [ok |-> TRUE, b0 |-> b0, b1 |-> b1]
    ELSE LET x == Head(ord)
         IN  IF Count(b0, x) = 1 THEN
                 IF Index(b1, x) = 0 THEN [ok |-> FALSE, b0 |-> b0, b1 |-> b1]
                 ELSE Residual(DelAt(b0, Index(b0, x)), DelAt(b1, Index(b1, x)),
                               Tail(ord))
             ELSE Residual(b0, b1, Tail(ord))

\* as Admissible, with the options dropped in the delegation
AdmissibleDropOptions(a, k, reduction, flips, alphabet, ord) ==
    LET r == Residual(a.xs[1].xs, a.xs[2].xs, ord)
    IN  IF ~r.ok THEN Raise("ValueError", "x not in list")
        ELSE IF r.b0 = <<>> /\ r.b1 = <<>> THEN Permutation(<<a>>, Kargs({}, None, None, None))
        ELSE IF r.b0 = <<>> \/ r.b1 = <<>>
        THEN Raise("ValueError", "There is no admissible length")
        ELSE SelectVariantLI(a, reduction, flips, alphabet)

\* the admissibility check and what follows it
Admissible(a, k, reduction, flips, alphabet, ord) ==
    LET r == Residual(a.xs[1].xs, a.xs[2].xs, ord)
    IN  IF ~r.ok THEN Raise("ValueError", "x not in list")
        ELSE IF r.b0 = <<>> /\ r.b1 = <<>> THEN Permutation(<<a>>, k)
        ELSE IF r.b0 = <<>> \/ r.b1 = <<>>
        THEN Raise("ValueError", "There is no admissible length")
        ELSE SelectVariantLI(a, reduction, flips, alphabet)

\* the fresh-build path of GeneralizedPermutation
BuildLI(x, k, ord) ==
    LET n == TwoLists(x)
    IN  IF n.kind = "raise" THEN n
        ELSE IF ReducedIsBad(k)
        THEN Raise("TypeError", "reduced must be of type boolean")
        ELSE LET reduction == Reduction(k, PyFalse)
                 flips == FlipsOf(k)
                 alphabet == AlphabetOf(k)
                 l == n.val.xs[1].xs \o n.val.xs[2].xs
                 letters == Range(l)
             IN  IF ~FlipListValid(flips, letters)
                 THEN Raise("TypeError", "The flip list is not valid")
                 ELSE IF ~TwiceInTotal(l, letters)
                 THEN Raise("ValueError", "Letters must reappear twice")
                 ELSE Admissible(n.val, k, reduction, flips, alphabet, ord)

\* GeneralizedPermutation(*args, **kargs); ord is the order in which the
\* set of letters is iterated
GeneralizedPermutation(as, k, ord) ==
    IF ReducedIsBad(k) THEN Raise("TypeError", "reduced must be of type boolean")
    ELSE LET reduction == Reduction(k, None)
             flips == FlipsOf(k)
             alphabet == AlphabetOf(k)
         IN  IF Len(as) = 1 /\ IsLabelledPermutation(as[1])
             THEN ConvertLabelledLI(as[1], reduction, flips, alphabet)
             ELSE IF Len(as) = 1 /\ IsReducedPermutation(as[1])
             THEN ConvertReducedLI(as[1], reduction, flips, alphabet)
             ELSE BuildLI(IF Len(as) = 1 THEN as[1] ELSE Tuple(as), k, ord)

\* ------------------------------------------------------------- the inputs
Letters == {Str(<<"a">>), Str(<<"b">>), Str(<<"c">>)}

Rows(n) == UNION {[1..m -> Letters] : m \in 0..n}

\* ' '.join(row)
RECURSIVE Join(_)
Join(r) ==
    IF r = <<>> THEN <<>>
    ELSE IF Len(r) = 1 THEN r[1].v
    ELSE r[1].v \o <<SP>> \o Join(Tail(r))

\* the one-line permutations of 1..n
OneLine(n) ==
    {p \in [1..n -> {PyInt(i) : i \in 1..n}] : \A i, j \in 1..n : p[i] = p[j] => i = j}

\* two positional strings, as in Permutation('a b c', 'c b a')
TwoStrings == {<<Str(Join(r0)), Str(Join(r1))>> : r0 \in Rows(MaxRowLen), r1 \in Rows(MaxRowLen)}

\* the rows of the examples in the docstrings of the two factories
Row(cs) == Str(Join([i \in 1..Len(cs) |-> Str(<<cs[i]>>)]))
DocExamples ==
    { <<Row(<<"a", "b", "c">>), Row(<<"c", "b", "a">>)>>,
      <<Row(<<"a", "b", "c">>), Row(<<"c", "a", "a">>)>>,
      <<Row(<<"a", "b", "c", "d">>), Row(<<"d", "c", "b", "a">>)>>,
      <<Row(<<"a", "b", "b">>), Row(<<"c", "c", "a">>)>>,
      <<Row(<<"a", "a", "b">>), Row(<<"b", "c", "c">>)>>,
      <<Row(<<"a", "a">>), Row(<<"b", "b", "c", "c">>)>>,
      <<Row(<<"a", "b", "c", "a">>), Row(<<"d", "c", "d", "b">>)>>,
      <<Row(<<"a", "b", "c", "a">>), Row(<<"d", "c", "c", "b">>)>> }

\* one positional argument: a list of two lists, a tuple of a string and a
\* list, a two-line string, a container holding one pair
OneArgument ==
    UNION {{ <<List(<<List(r0), List(r1)>>)>>,
             <<Tuple(<<Str(Join(r0)), List(r1)>>)>>,
             <<Str(Join(r0) \o <<NL>> \o Join(r1))>>,
             <<List(<<Tuple(<<Str(Join(r0)), Str(Join(r1))>>)>>)>> }
           : r0 \in Rows(MaxAltLen), r1 \in Rows(MaxAltLen)}

GroupPermutations ==
    UNION {{ <<CombPerm(p)>>, <<List(<<CombPerm(p)>>)>> } : p \in UNION {OneLine(n) : n \in 1..(MaxAltLen + 1)}}

\* what cannot be made two rows
Unsplittable ==
    { <<>>, <<PyInt(1)>>, <<Str(<<"a", SP, "b">>)>>,
      <<Str(<<"a", NL, "b", NL, "c">>)>>, <<List(<<>>)>>,
      <<Str(<<"a">>), Str(<<"a">>), Str(<<"a">>)>>,
      <<List(<<PyInt(1), PyInt(2)>>)>>, <<List(<<Str(<<"a", NL, "a">>)>>)>>,
      <<List(<<List(<<Str(<<"a">>)>>)>>)>>, <<List(<<PyInt(1)>>)>> }

ReducedOptions == {None, PyTrue, PyFalse, Str(<<"b", "a", "d", "l", "y">>)}
FlipsOptions == {None, List(<<>>), Str(<<"a">>), List(<<Str(<<"c">>), Str(<<"a">>)>>)}
AlphabetOptions == {None, Str(<<"a", "b", "c">>)}

\* a keyword whose value is None here is a keyword that is not given
KargsInputs ==
    {Kargs({w \in {"reduced", "flips", "alphabet"} :
               \/ w = "reduced" /\ r # None
               \/ w = "flips" /\ f # None
               \/ w = "alphabet" /\ al # None}, r, f, al)
       : r \in ReducedOptions, f \in FlipsOptions, al \in AlphabetOptions}

\* the orders in which a set can be iterated
Orders(S) == {o \in [1..Cardinality(S) -> S] : \A i, j \in 1..Cardinality(S) : o[i] = o[j] => i = j}

\* the letters of the rows of a raw argument ({} when it has no rows)
LettersOf(x) ==
    LET n == TwoLists(x)
    IN  IF n.kind = "raise" THEN {} ELSE Range(n.val.xs[1].xs \o n.val.xs[2].xs)

Raw(as) == IF Len(as) = 1 THEN as[1] ELSE Tuple(as)

\* objects the factories return, used as arguments of later calls
SeedArgs ==
    { <<Str(<<"a">>), Str(<<"a">>)>>,
      <<Str(<<"a", SP, "b">>), Str(<<"b", SP, "a">>)>>,
      <<Str(<<"a", SP, "a">>), Str(<<"b", SP, "b">>)>>,
      <<Str(<<"a", SP, "b", SP, "b">>), Str(<<"c", SP, "c", SP, "a">>)>> }
SeedKargs ==
    {k \in KargsInputs : k.reduced \in {None, PyTrue} /\ k.flips \in {None, Str(<<"a">>)}}
Objects ==
    {GeneralizedPermutation(as, k, CHOOSE o \in Orders(LettersOf(Raw(as))) : TRUE).val
       : as \in SeedArgs, k \in SeedKargs}
ObjectArguments == {<<o>> : o \in Objects}

ArgsInputs == TwoStrings \cup DocExamples \cup OneArgument \cup GroupPermutations \cup Unsplittable \cup ObjectArguments

NoKargs == Kargs({}, None, None, None)

\* the call in progress when a factory is followed statement by statement:
\* the factory being executed and its arguments, the rows a once
\* normalised, the checks passed and the variant constructors invoked
NoRun == [frame |-> "", args |-> <<>>, a |-> None, passed |-> {}, built |-> 0]

\* ------------------------------------------------------ the state machine
Init ==
    /\ pc = "idle"
    /\ fn = ""
    /\ args = <<>>
    /\ kargs = NoKargs
    /\ outcome = NoOutcome
    /\ run = NoRun

CallPermutation ==
    /\ pc = "idle"
    /\ \E as \in ArgsInputs, k \in KargsInputs :
          /\ args' = as
          /\ kargs' = k
          /\ outcome' = Permutation(as, k)
    /\ fn' = "Permutation"
    /\ pc' = "done"
    /\ UNCHANGED run

CallGeneralizedPermutation ==
    /\ pc = "idle"
    /\ \E as \in ArgsInputs :
          \E ord \in Orders(LettersOf(Raw(as))), k \in KargsInputs :
             /\ args' = as
             /\ kargs' = k
             /\ outcome' = GeneralizedPermutation(as, k, ord)
    /\ fn' = "GeneralizedPermutation"
    /\ pc' = "done"
    /\ UNCHANGED run

\* the caller takes the result; the next call starts from nothing
Finish ==
    /\ pc = "done"
    /\ pc' = "idle"
    /\ fn' = ""
    /\ args' = <<>>
    /\ kargs' = NoKargs
    /\ outcome' = NoOutcome
    /\ run' = NoRun

Next == CallPermutation \/ CallGeneralizedPermutation \/ Finish

Spec == Init /\ [][Next]_vars

\* ----------------------------------------------- vocabulary of the claims
Called(f) == pc = "done" /\ fn = f

\* the call is on the fresh-build path: the argument is no permutation object
IsObject(x) == x.ty \in LabelledClasses \cup ReducedClasses
Fresh == ~(Len(args) = 1 /\ IsObject(args[1]))

\* the argument normalises to two rows, row0 and row1
Norm == TwoLists(Raw(args))
Normalizes == Norm.kind = "return"
row0 == Norm.val.xs[1].xs
row1 == Norm.val.xs[2].xs
letters == Range(row0 \o row1)

\* the reduced option is unset, false or true
ReducedGiven == "reduced" \in kargs.has
ReducedWellTyped == ReducedGiven => kargs.reduced \in {PyTrue, PyFalse}
ReducedRequested == ReducedGiven /\ kargs.reduced = PyTrue

\* the flips the caller requests
RequestedFlips == IF "flips" \in kargs.has THEN ListOf(kargs.flips) ELSE <<>>
FlipsRequested == RequestedFlips # <<>>
FlipsKnown == \A i \in 1..Len(RequestedFlips) : RequestedFlips[i] \in letters
RequestedAlphabet == IF "alphabet" \in kargs.has THEN kargs.alphabet ELSE None

FreshOnRows == Fresh /\ Normalizes /\ ReducedWellTyped

Raised(exc, msg) == outcome = Raise(exc, msg)
Returned == outcome.kind = "return"

\* the error classes of the specification
IsValidationError ==
    /\ outcome.kind = "raise"
    /\ outcome.exc = "ValueError"
    /\ outcome.msg \in {"flips contains not valid letters",
                        "letters must appear once in each interval",
                        "Letters must reappear twice",
                        "There is no admissible length"}

\* the rows of a returned object
ObjRow(o, i) == o.xs[1].xs[i].xs
ObjLetters(o) == Range(ObjRow(o, 1) \o ObjRow(o, 2))

\* ---------------------------------------------------------------- C1
SomeLetterNotOnce == \E x \in letters : Count(row0, x) # 1 \/ Count(row1, x) # 1

\* C1: on the fresh-build path of Permutation, for rows in which some letter
\* does not occur exactly once in row0 and exactly once in row1, the call
\* raises a ValidationError whatever reduced (unset, false, true) and flips
\* are; every object returned has each letter once in each row.
C1_OncePerRow ==
    (Called("Permutation") /\ FreshOnRows) =>
        /\ SomeLetterNotOnce => IsValidationError
        /\ Returned =>
              \A x \in ObjLetters(outcome.val) :
                  /\ Count(ObjRow(outcome.val, 1), x) = 1
                  /\ Count(ObjRow(outcome.val, 2), x) = 1

\* Permutation('a b c', 'c a a', reduced=True) raises "letters must appear
\* once in each interval"
C1_Witness ==
    /\ Called("Permutation")
    /\ args = <<Row(<<"a", "b", "c">>), Row(<<"c", "a", "a">>)>>
    /\ ReducedRequested
    /\ Raised("ValueError", "letters must appear once in each interval")

\* ---------------------------------------------------------------- C2
SomeLetterNotTwice == \E x \in letters : Count(row0 \o row1, x) # 2

\* C2 as stated: on the fresh-build path of GeneralizedPermutation, for rows
\* in which some letter does not occur exactly twice in row0 + row1, the
\* call raises "Letters must reappear twice" whatever reduced and flips are.
C2_AsStated ==
    (Called("GeneralizedPermutation") /\ FreshOnRows /\ SomeLetterNotTwice) =>
        Raised("ValueError", "Letters must reappear twice")

\* C2 (amended): for such rows the call returns no object; it raises
\* "Letters must reappear twice" when every requested flip is a letter of the
\* rows, and the TypeError "The flip list is not valid" when one is not.
C2_TwiceInTotal ==
    (Called("GeneralizedPermutation") /\ FreshOnRows /\ SomeLetterNotTwice) =>
        /\ FlipsKnown => Raised("ValueError", "Letters must reappear twice")
        /\ ~FlipsKnown => Raised("TypeError", "The flip list is not valid")

\* GeneralizedPermutation('a b c a', 'd c c b', flips='a') raises "Letters
\* must reappear twice"
C2_Witness ==
    /\ Called("GeneralizedPermutation")
    /\ args = <<Row(<<"a", "b", "c", "a">>), Row(<<"d", "c", "c", "b">>)>>
    /\ FlipsRequested /\ FlipsKnown
    /\ Raised("ValueError", "Letters must reappear twice")

\* ---------------------------------------------------------------- C3
\* the residual rows of the specification: row0 without the letters that
\* occur once in it, row1 without one occurrence of each of these letters
RECURSIVE WithoutOnce(_, _)
WithoutOnce(r, S) ==
    IF S = {} THEN r
    ELSE LET x == CHOOSE y \in S : TRUE
         IN  WithoutOnce(IF Index(r, x) = 0 THEN r ELSE DelAt(r, Index(r, x)),
                         S \ {x})
SingleInRow0 == {x \in letters : Count(row0, x) = 1}
residual0 == WithoutOnce(row0, SingleInRow0)
residual1 == WithoutOnce(row1, SingleInRow0)

PassesGeneralizedChecks == FreshOnRows /\ FlipsKnown /\ ~SomeLetterNotTwice

\* C3: on the fresh-build path of GeneralizedPermutation, past the flip and
\* twice-in-total checks: both residual rows empty, the result is the
\* exchange permutation Permutation builds with the same options; exactly
\* one empty, "There is no admissible length"; none empty, a generalized
\* variant is constructed.  The residual computation never fails.
C3_Admissibility ==
    (Called("GeneralizedPermutation") /\ PassesGeneralizedChecks) =>
        /\ (residual0 = <<>> /\ residual1 = <<>>) =>
              /\ Returned /\ outcome.val.ty \in ExchangeClasses
              /\ outcome = Permutation(<<Norm.val>>, kargs)
        /\ ((residual0 = <<>>) # (residual1 = <<>>)) =>
              Raised("ValueError", "There is no admissible length")
        /\ (residual0 # <<>> /\ residual1 # <<>>) =>
              /\ Returned /\ outcome.via = "construct"
              /\ outcome.val.ty \in (LabelledClasses \cup ReducedClasses) \ ExchangeClasses

\* GeneralizedPermutation('a b b', 'c c a'): a is removed from both rows,
\* both residual rows are non-empty, a linear involution is built
C3_Witness ==
    /\ Called("GeneralizedPermutation")
    /\ args = <<Row(<<"a", "b", "b">>), Row(<<"c", "c", "a">>)>>
    /\ residual0 = <<Str(<<"b">>), Str(<<"b">>)>>
    /\ residual1 = <<Str(<<"c">>), Str(<<"c">>)>>
    /\ Returned /\ outcome.val.ty = "LabelledPermutationLI"

\* the other two outcomes are reached too
C3_WitnessDegenerate ==
    /\ Called("GeneralizedPermutation") /\ PassesGeneralizedChecks
    /\ row0 # <<>> /\ residual0 = <<>> /\ residual1 = <<>>
    /\ Returned
C3_WitnessInadmissible ==
    /\ Called("GeneralizedPermutation") /\ PassesGeneralizedChecks
    /\ residual0 # <<>> /\ residual1 = <<>>
    /\ Raised("ValueError", "There is no admissible length")

\* ---------------------------------------------------------------- C4
EveryLetterOncePerRow == \A x \in letters : Count(row0, x) = 1 /\ Count(row1, x) = 1

\* C4: for rows with every letter once in each row and no flips requested,
\* GeneralizedPermutation(x, reduced=r) has the outcome of
\* Permutation(x, reduced=r), an object, for r unset, false and true.
C4_DegenerateIsExchange ==
    (Called("GeneralizedPermutation") /\ FreshOnRows /\ EveryLetterOncePerRow
        /\ ~FlipsRequested) =>
        /\ outcome = Permutation(args, kargs)
        /\ Returned /\ outcome.val.ty \in ExchangeClasses

\* GeneralizedPermutation('a b c', 'c b a', reduced=True) is the reduced
\* exchange permutation
C4_Witness ==
    /\ Called("GeneralizedPermutation")
    /\ args = <<Row(<<"a", "b", "c">>), Row(<<"c", "b", "a">>)>>
    /\ ReducedRequested /\ ~FlipsRequested
    /\ Returned /\ outcome.val.ty = "ReducedPermutationIET"

\* ---------------------------------------------------------------- C5
\* the variant named by (reduced, flipped, kind)
VariantOf(reduced, flipped, kind) ==
    IF kind = "IET" THEN
        IF reduced
        THEN IF flipped THEN "FlippedReducedPermutationIET" ELSE "ReducedPermutationIET"
        ELSE IF flipped THEN "FlippedLabelledPermutationIET" ELSE "LabelledPermutationIET"
    ELSE
        IF reduced
        THEN IF flipped THEN "FlippedReducedPermutationLI" ELSE "ReducedPermutationLI"
        ELSE IF flipped THEN "FlippedLabelledPermutationLI" ELSE "LabelledPermutationLI"

\* the kind built: exchange for Permutation and for the degenerate rows of
\* GeneralizedPermutation
ExpectedKind ==
    IF fn = "Permutation" \/ \A x \in letters : Count(row0, x) = 1 THEN "IET" ELSE "LI"

\* C5: on the fresh-build path of either factory, an object is returned only
\* by a variant constructor; its variant is reduced iff reduced=True, flipped
\* iff the flips are non-empty, of the factory's kind, and it was given the
\* normalised pair of rows, the caller's alphabet and, when flipped, the
\* caller's flips.
C5_VariantSelection ==
    (pc = "done" /\ FreshOnRows /\ Returned) =>
        /\ outcome.via = "construct"
        /\ outcome.val =
              Obj(VariantOf(ReducedRequested, FlipsRequested, ExpectedKind),
                  Norm.val, RequestedAlphabet,
                  IF FlipsRequested THEN List(RequestedFlips) ELSE None)

\* Permutation('a b c', 'c b a', flips='a', reduced=True) is a flipped
\* reduced exchange permutation
C5_Witness ==
    /\ Called("Permutation")
    /\ args = <<Row(<<"a", "b", "c">>), Row(<<"c", "b", "a">>)>>
    /\ ReducedRequested /\ kargs.flips = Str(<<"a">>)
    /\ Returned /\ outcome.val.ty = "FlippedReducedPermutationIET"

C5_WitnessGeneralized ==
    /\ Called("GeneralizedPermutation")
    /\ ReducedRequested /\ FlipsRequested /\ "alphabet" \in kargs.has
    /\ Returned /\ outcome.val.ty = "FlippedReducedPermutationLI"

\* ---------------------------------------------------------------- C6
\* C6: on the fresh-build path, a requested flip that is a letter of neither
\* row makes Permutation raise ValueError "flips contains not valid letters"
\* and GeneralizedPermutation raise TypeError "The flip list is not valid",
\* also when the multiplicities of the letters are wrong.
C6_FlipsCheckedFirst ==
    (pc = "done" /\ FreshOnRows /\ ~FlipsKnown) =>
        /\ fn = "Permutation" => Raised("ValueError", "flips contains not valid letters")
        /\ fn = "GeneralizedPermutation" => Raised("TypeError", "The flip list is not valid")

\* an unknown flip and wrong multiplicities together, in each factory
C6_Witness ==
    /\ Called("Permutation") /\ FreshOnRows
    /\ ~FlipsKnown /\ SomeLetterNotOnce
    /\ Raised("ValueError", "flips contains not valid letters")

C6_WitnessGeneralized ==
    /\ Called("GeneralizedPermutation") /\ FreshOnRows
    /\ ~FlipsKnown /\ SomeLetterNotTwice
    /\ Raised("TypeError", "The flip list is not valid")

\* ---------------------------------------------------------------- C7
IsExchangeObject(x) == x.ty \in ExchangeClasses
Converts(f) == Called(f) /\ Len(args) = 1 /\ IsObject(args[1])

\* C7: Permutation(p) of an exchange permutation p with no option is a copy
\* of p; Permutation(p, reduced=True) of a reduced p is a copy of p; and
\* Permutation(p, reduced=True) of a labelled p, no flips requested, is
\* p.reduced().
C7_RoundTrip ==
    (Converts("Permutation") /\ IsExchangeObject(args[1])) =>
        /\ kargs.has = {} => outcome = Return("copy", args[1])
        /\ (kargs.has = {"reduced"} /\ ReducedRequested /\ args[1].ty \in ReducedClasses)
              => outcome = Return("copy", args[1])
        /\ (ReducedRequested /\ ~FlipsRequested /\ args[1].ty \in LabelledClasses)
              => /\ outcome = Return("reduced", ReducedMethod(args[1]))
                 /\ outcome.val.ty \in ReducedClasses
                 /\ outcome.val.xs = args[1].xs

\* a flipped labelled p and reduced=True: the result is p.reduced()
C7_Witness ==
    /\ Converts("Permutation")
    /\ args[1].ty = "FlippedLabelledPermutationIET"
    /\ ReducedRequested /\ ~FlipsRequested
    /\ outcome.via = "reduced" /\ outcome.val.ty = "FlippedReducedPermutationIET"

C7_WitnessCopy ==
    /\ Converts("Permutation")
    /\ args[1].ty = "FlippedReducedPermutationIET"
    /\ kargs.has = {}
    /\ outcome = Return("copy", args[1])

\* ---------------------------------------------------------------- C8
RebuiltFromRowsOf(p) == Returned /\ outcome.val.xs[1] = ListMethod(p)

\* C8 as stated: Permutation(p, flips=f) with f non-empty rebuilds a flipped
\* variant from the rows of p; for a labelled p it is reduced iff
\* reduced=True, for a reduced p it is labelled iff reduced=False.
C8_AsStated ==
    (Converts("Permutation") /\ ReducedWellTyped /\ FlipsRequested) =>
        /\ RebuiltFromRowsOf(args[1])
        /\ outcome.val.ty \in FlippedClasses
        /\ args[1].ty \in LabelledClasses =>
              (outcome.val.ty \in ReducedClasses <=> ReducedRequested)
        /\ args[1].ty \in ReducedClasses =>
              (outcome.val.ty \in LabelledClasses <=> (ReducedGiven /\ kargs.reduced = PyFalse))

\* what the code does for a labelled p: reduced = reduction in (None, False)
\* is the keyword it passes, so the variant is reduced iff reduced is unset
\* or False; the half of C8 about a reduced p holds
C8_Code ==
    (Converts("Permutation") /\ ReducedWellTyped /\ FlipsRequested) =>
        /\ RebuiltFromRowsOf(args[1])
        /\ outcome.val.ty \in FlippedClasses
        /\ args[1].ty \in LabelledClasses =>
              (outcome.val.ty \in ReducedClasses <=> ~ReducedRequested)
        /\ args[1].ty \in ReducedClasses =>
              (outcome.val.ty \in LabelledClasses <=> (ReducedGiven /\ kargs.reduced = PyFalse))

\* ---------------------------------------------------------------- C9
ReducedToLabelled(f) ==
    /\ Converts(f) /\ args[1].ty \in ReducedClasses
    /\ ~FlipsRequested /\ ReducedGiven /\ kargs.reduced = PyFalse

\* two outcomes take the same decision: the same operation (copy, reduced(),
\* rebuild), and for a rebuild the same rows, reduction, flips and alphabet
SameDecision(o1, o2) ==
    /\ o1.kind = o2.kind /\ o1.via = o2.via /\ o1.exc = o2.exc /\ o1.msg = o2.msg
    /\ o1.val.xs = o2.val.xs
    /\ (o1.val.ty \in ReducedClasses) = (o2.val.ty \in ReducedClasses)
    /\ (o1.val.ty \in FlippedClasses) = (o2.val.ty \in FlippedClasses)

\* the conversion path of GeneralizedPermutation decides as Permutation does
C9_Mirror ==
    Converts("GeneralizedPermutation") =>
        /\ SameDecision(outcome, Permutation(args, kargs))
        /\ outcome.via = "rebuild" => outcome.val.ty \notin ExchangeClasses

\* C9 as stated: a reduced p, no flips and reduced=False give an unflipped
\* labelled variant rebuilt from the rows of p, in Permutation and, on its
\* own family, in GeneralizedPermutation, whose conversion path decides as
\* that of Permutation.
C9_AsStated ==
    /\ ReducedToLabelled("Permutation") =>
          RebuiltFromRowsOf(args[1]) /\ outcome.val.ty = "LabelledPermutationIET"
    /\ ReducedToLabelled("GeneralizedPermutation") =>
          RebuiltFromRowsOf(args[1]) /\ outcome.val.ty = "LabelledPermutationLI"
    /\ C9_Mirror

\* what the code does: it passes reduced=True, and no alphabet
C9_Code ==
    /\ ReducedToLabelled("Permutation") =>
          outcome = Return("rebuild", Obj("ReducedPermutationIET", ListMethod(args[1]), None, None))
    /\ ReducedToLabelled("GeneralizedPermutation") =>
          outcome = Return("rebuild", Obj("ReducedPermutationLI", ListMethod(args[1]), None, None))

\* --------------------------------------------------------------- C10
\* C10: in both factories a reduced option that is given and is no boolean
\* raises TypeError "reduced must be of type boolean", whatever the
\* argument (rows, something that is no two rows, wrong multiplicities, a
\* permutation object); nothing is copied, reduced or constructed.
C10_ReducedTypeFirst ==
    (pc = "done" /\ ReducedGiven /\ kargs.reduced.ty # "bool") =>
        Raised("TypeError", "reduced must be of type boolean")

\* the error wins over the FormatError of an argument that is no two rows
C10_Witness ==
    /\ Called("GeneralizedPermutation")
    /\ ReducedGiven /\ kargs.reduced.ty = "str"
    /\ ~Normalizes
    /\ Raised("TypeError", "reduced must be of type boolean")

C10_WitnessObject ==
    /\ Converts("Permutation")
    /\ ReducedGiven /\ kargs.reduced.ty = "str"
    /\ Raised("TypeError", "reduced must be of type boolean")

\* =================================================================
\* the factories followed statement by statement
\* =================================================================
Factories == {"Permutation", "GeneralizedPermutation"}

StepArgs == DocExamples \cup OneArgument \cup GroupPermutations \cup Unsplittable \cup ObjectArguments

Going(label) == pc = label /\ UNCHANGED <<fn, args, kargs>>

Fail(e) == pc' = "done" /\ outcome' = e /\ UNCHANGED run

\* a factory is entered with its arguments
Begin ==
    /\ pc = "idle"
    /\ \E f \in Factories, as \in StepArgs, k \in KargsInputs :
          /\ fn' = f
          /\ args' = as
          /\ kargs' = k
          /\ run' = [NoRun EXCEPT !.frame = f, !.args = as]
    /\ pc' = "options"
    /\ UNCHANGED outcome

\* lines 346-396 and 497-547: the options are read; an existing object is
\* converted
ReadOptions ==
    /\ Going("options")
    /\ LET as == run.args
           reduction == Reduction(kargs, None)
           flips == FlipsOf(kargs)
           alphabet == AlphabetOf(kargs)
           IET == run.frame = "Permutation"
       IN  IF ReducedIsBad(kargs)
           THEN Fail(Raise("TypeError", "reduced must be of type boolean"))
           ELSE IF Len(as) = 1 /\ IsLabelledPermutation(as[1])
           THEN /\ outcome' = IF IET THEN ConvertLabelledIET(as[1], reduction, flips, alphabet)
                              ELSE ConvertLabelledLI(as[1], reduction, flips, alphabet)
                /\ pc' = "done" /\ UNCHANGED run
           ELSE IF Len(as) = 1 /\ IsReducedPermutation(as[1])
           THEN /\ outcome' = IF IET THEN ConvertReducedIET(as[1], reduction, flips, alphabet)
                              ELSE ConvertReducedLI(as[1], reduction, flips, alphabet)
                /\ pc' = "done" /\ UNCHANGED run
           ELSE pc' = "normalize" /\ UNCHANGED <<outcome, run>>

\* lines 398 and 549: a = _two_lists(args)
Normalize ==
    /\ Going("normalize")
    /\ LET n == TwoLists(Raw(run.args))
       IN  IF n.kind = "raise" THEN Fail(n)
           ELSE /\ run' = [run EXCEPT !.a = n.val, !.passed = @ \cup {"normalize"}]
                /\ pc' = "flips"
                /\ UNCHANGED outcome

\* as CheckFlips, with the flips never looked at
CheckFlipsSkipped ==
    /\ Going("flips")
    /\ pc' = "letters"
    /\ UNCHANGED <<outcome, run>>

\* lines 400-405 and 568-573: every flip is a letter
CheckFlips ==
    /\ Going("flips")
    /\ LET ls == Range(run.a.xs[1].xs \o run.a.xs[2].xs)
           bad == IF run.frame = "Permutation"
                  THEN IF FlipsValid(FlipsOf(kargs), ls) THEN NoOutcome
                       ELSE Raise("ValueError", "flips contains not valid letters")
                  ELSE IF FlipListValid(FlipsOf(kargs), ls) THEN NoOutcome
                       ELSE Raise("TypeError", "The flip list is not valid")
       IN  IF bad # NoOutcome THEN Fail(bad)
           ELSE /\ run' = [run EXCEPT !.passed = @ \cup {"flips"}]
                /\ pc' = "letters"
                /\ UNCHANGED outcome

\* lines 407-409 and 575-577: the letters are counted
CheckLetters ==
    /\ Going("letters")
    /\ LET a0 == run.a.xs[1].xs
           a1 == run.a.xs[2].xs
           ls == Range(a0 \o a1)
           IET == run.frame = "Permutation"
           bad == IF IET
                  THEN IF OnceInEachRow(a0, a1, ls) THEN NoOutcome
                       ELSE Raise("ValueError", "letters must appear once in each interval")
                  ELSE IF TwiceInTotal(a0 \o a1, ls) THEN NoOutcome
                       ELSE Raise("ValueError", "Letters must reappear twice")
       IN  IF bad # NoOutcome THEN Fail(bad)
           ELSE /\ run' = [run EXCEPT !.passed = @ \cup {"letters"}]
                /\ pc' = IF IET THEN "construct" ELSE "admissible"
                /\ UNCHANGED outcome

\* lines 579-591: the residual rows; with both empty the call is handed to
\* Permutation(a, **kargs), which starts at its own first statement
CheckAdmissible ==
    /\ Going("admissible")
    /\ \E ord \in Orders(Range(run.a.xs[1].xs \o run.a.xs[2].xs)) :
          LET r == Residual(run.a.xs[1].xs, run.a.xs[2].xs, ord)
          IN  IF ~r.ok THEN Fail(Raise("ValueError", "x not in list"))
              ELSE IF r.b0 = <<>> /\ r.b1 = <<>>
              THEN /\ run' = [run EXCEPT !.frame = "Permutation", !.args = <<run.a>>,
                                         !.passed = @ \cup {"admissible"}]
                   /\ pc' = "options"
                   /\ UNCHANGED outcome
              ELSE IF r.b0 = <<>> \/ r.b1 = <<>>
              THEN Fail(Raise("ValueError", "There is no admissible length"))
              ELSE /\ run' = [run EXCEPT !.passed = @ \cup {"admissible"}]
                   /\ pc' = "construct"
                   /\ UNCHANGED outcome

\* lines 411-420 and 593-602: the variant constructor is invoked and its
\* object returned
ConstructVariant ==
    /\ Going("construct")
    /\ outcome' = IF run.frame = "Permutation"
                  THEN SelectVariantIET(run.a, Reduction(kargs, None),
                                        FlipsOf(kargs), AlphabetOf(kargs))
                  ELSE SelectVariantLI(run.a, Reduction(kargs, PyFalse),
                                       FlipsOf(kargs), AlphabetOf(kargs))
    /\ run' = [run EXCEPT !.built = @ + 1]
    /\ pc' = "done"

NextSteps ==
    \/ Begin \/ ReadOptions \/ Normalize \/ CheckFlips \/ CheckLetters
    \/ CheckAdmissible \/ ConstructVariant \/ Finish

SpecSteps == Init /\ [][NextSteps]_vars

\* =================================================================
\* IntervalExchangeTransformation(permutation=None, lengths=None)
\* =================================================================
Zero == Val("int", <<"0">>, <<>>)
Minus(n) == Val("int", <<"-", Digit[n]>>, <<>>)
Float(cs) == Val("float", cs, <<>>)
Dict(items) == Val("dict", <<>>, items)

\* an exception that carries the value it is about
RaiseAbout(exc, msg, x) == [Raise(exc, msg) EXCEPT !.val = x]

IsDigits(cs) == cs # <<>> /\ \A i \in 1..Len(cs) : cs[i] \in Range(Digit) \cup {"0"}

\* float(x): a number is converted, a string is parsed (ValueError when it
\* is not the text of a number), anything else is a TypeError
FloatOf(x) ==
    IF x.ty \in {"int", "float"} THEN Return("", Float(x.v))
    ELSE IF x.ty = "str"
    THEN IF IsDigits(x.v) THEN Return("", Float(x.v))
         ELSE Raise("ValueError", "could not convert string to float")
    ELSE Raise("TypeError", "float() argument must be a string or a number")

\* y <= 0
NotPositive(y) == y.v[1] = "-" \/ \A i \in 1..Len(y.v) : y.v[i] = "0"

\* len(p): the number of letters of p
PermLen(p) == (Len(p.xs[1].xs[1].xs) + Len(p.xs[1].xs[2].xs)) \div 2

\* the letters of a sequence in the order of their first occurrence
RECURSIVE Distinct(_)
Distinct(s) ==
    IF s = <<>> THEN <<>>
    ELSE LET d == Distinct(SubSeq(s, 1, Len(s) - 1))
         IN  IF s[Len(s)] \in Range(d) THEN d ELSE Append(d, s[Len(s)])

\* p._alphabet: the alphabet p was built with, else the letters of p
AlphabetLetters(p) ==
    IF p.xs[2] = None THEN Distinct(p.xs[1].xs[1].xs \o p.xs[1].xs[2].xs)
    ELSE ListOf(p.xs[2])

\* alphabet.rank(letter)
Rank(p, letter) == Index(AlphabetLetters(p), letter) - 1

\* _IET(p, l)
IET(p, l) ==
    Return("construct", Val("IntervalExchangeTransformation", <<>>, <<p, List(l)>>))

\* l = [0] * len(p); for letter in lengths: l[alphabet.rank(letter)] = lengths[letter]
RECURSIVE Assign(_, _, _)
Assign(p, l, items) ==
    IF items = <<>> THEN Return("", List(l))
    ELSE LET r == Rank(p, Head(items).xs[1])
         IN  IF r < 0 THEN Raise("ValueError", "letter not in alphabet")
             ELSE IF r >= Len(l)
             THEN Raise("IndexError", "list assignment index out of range")
             ELSE Assign(p, [l EXCEPT ![r + 1] = Head(items).xs[2]], Tail(items))

\* lines 914-920: the vector l of lengths
LengthVector(p, lengths) ==
    IF lengths.ty = "dict"
    THEN Assign(p, [i \in 1..PermLen(p) |-> Zero], lengths.xs)
    ELSE IF lengths.ty \in {"list", "tuple", "str"} THEN Return("", List(ListOf(lengths)))
    ELSE Raise("TypeError", "object is not iterable")

\* lines 925-932 on the entries from position i on
RECURSIVE CheckEntries(_, _, _)
CheckEntries(p, l, i) ==
    IF i > Len(l) THEN IET(p, l)
    ELSE LET y == FloatOf(l[i])
         IN  IF y.kind = "raise"
             THEN IF y.exc = "ValueError"
                  THEN RaiseAbout("TypeError", "unable to convert {!r} to a float", l[i])
                  ELSE y
             ELSE IF NotPositive(y.val)
             THEN Raise("ValueError", "lengths must be positive")
             ELSE CheckEntries(p, l, i + 1)

\* as CheckLengths, with the entries examined before they are counted
CheckLengthsEntriesFirst(p, l) ==
    LET r == CheckEntries(p, l, 1)
    IN  IF r.kind = "raise" THEN r
        ELSE IF Len(l) # PermLen(p) THEN Raise("ValueError", "bad number of lengths")
        ELSE r

\* lines 922-934
CheckLengths(p, l) ==
    IF Len(l) # PermLen(p) THEN Raise("ValueError", "bad number of lengths")
    ELSE CheckEntries(p, l, 1)

\* lines 906-911
ResolvePermutation(permutation) ==
    IF permutation.ty \in FlippedClasses
    THEN Raise("TypeError", "flips are not yet implemented")
    ELSE IF permutation.ty = "LabelledPermutationIET" THEN Return("", permutation)
    ELSE Permutation(<<permutation>>, Kargs({"reduced"}, PyFalse, None, None))

IntervalExchangeTransformation(permutation, lengths) ==
    LET p == ResolvePermutation(permutation)
    IN  IF p.kind = "raise" THEN p
        ELSE LET l == LengthVector(p.val, lengths)
             IN  IF l.kind = "raise" THEN l
                 ELSE CheckLengths(p.val, l.val.xs)

\* ---- inputs
LengthValues ==
    {PyInt(1), PyInt(2), Zero, Minus(1), Str(<<"r", "h", "o">>),
     Str(<<"2">>), Str(<<"0">>), None}

LengthLists == {List(l) : l \in UNION {[1..m -> LengthValues] : m \in 0..MaxLengths}}

\* the mappings from some of the letters a, b, c to lengths
LetterSeq == <<Str(<<"a">>), Str(<<"b">>), Str(<<"c">>)>>
Absent == Val("absent", <<>>, <<>>)
RECURSIVE Items(_, _)
Items(f, i) ==
    IF i > Len(LetterSeq) THEN <<>>
    ELSE IF f[i] = Absent THEN Items(f, i + 1)
    ELSE <<Tuple(<<LetterSeq[i], f[i]>>)>> \o Items(f, i + 1)
LengthDicts ==
    {Dict(Items(f, 1)) : f \in [1..Len(LetterSeq) -> LengthValues \cup {Absent}]}

LengthsInputs == LengthLists \cup LengthDicts \cup {None, Tuple(<<PyInt(1), PyInt(2)>>)}

PermutationInputs ==
    Objects \cup
    { Tuple(<<Str(<<"a">>), Str(<<"a">>)>>),
      Tuple(<<Str(<<"a", SP, "b">>), Str(<<"b", SP, "a">>)>>),
      Tuple(<<Str(<<"a", SP, "b", SP, "c">>), Str(<<"c", SP, "b", SP, "a">>)>>),
      Str(<<"a", SP, "b", NL, "b", SP, "a">>),
      List(<<List(<<Str(<<"b">>), Str(<<"a">>)>>), List(<<Str(<<"a">>), Str(<<"b">>)>>)>>),
      CombPerm(<<PyInt(2), PyInt(1)>>),
      Tuple(<<Str(<<"a", SP, "a">>), Str(<<"b", SP, "b">>)>>),
      Str(<<"a">>), None }

CallIntervalExchangeTransformation ==
    /\ pc = "idle"
    /\ \E permutation \in PermutationInputs, lengths \in LengthsInputs :
          /\ args' = <<permutation, lengths>>
          /\ outcome' = IntervalExchangeTransformation(permutation, lengths)
    /\ kargs' = NoKargs
    /\ fn' = "IntervalExchangeTransformation"
    /\ pc' = "done"
    /\ UNCHANGED run

NextIET == CallIntervalExchangeTransformation \/ Finish

SpecIET == Init /\ [][NextIET]_vars

\* =================================================================
\* RauzyDiagram(*args, **kargs)
\* =================================================================
Toggles ==
    {"right_induction", "left_induction", "left_right_inversion",
     "top_bottom_inversion", "symmetric"}

\* kargs[name] when the keyword is given, else the default
Toggle(k, name, default) == IF name \in k.has THEN k.toggles[name] ELSE default

\* p.rauzy_diagram(right_induction=..., ..., symmetric=...)
RauzyDiagramMethod(p, ri, li, lri, tbi, sym) ==
    Return("rauzy_diagram", Val("RauzyDiagram", <<>>, <<p, ri, li, lri, tbi, sym>>))

RauzyDiagram(as, k, ord) ==
    LET reduced == IF "reduced" \in k.has THEN k.reduced ELSE PyFalse
        flips == IF "flips" \in k.has THEN k.flips ELSE List(<<>>)
        alphabet == IF "alphabet" \in k.has THEN k.alphabet ELSE None
        p == GeneralizedPermutation(<<Tuple(as)>>,
                                    Kargs({"reduced", "flips", "alphabet"},
                                          reduced, flips, alphabet),
                                    ord)
    IN  IF p.kind = "raise" THEN p
        ELSE RauzyDiagramMethod(p.val,
                                Toggle(k, "right_induction", PyTrue),
                                Toggle(k, "left_induction", PyFalse),
                                Toggle(k, "left_right_inversion", PyFalse),
                                Toggle(k, "top_bottom_inversion", PyFalse),
                                Toggle(k, "symmetric", PyFalse))

\* ---- inputs: every argument and option with few toggles, every choice of
\* toggles with few arguments
ToggleValues == {Absent, PyTrue, PyFalse}
ToggleInputs == [Toggles -> ToggleValues]
FewToggles == {[n \in Toggles |-> Absent], [n \in Toggles |-> IF n = "right_induction" THEN PyFalse ELSE PyTrue]}
FewArgs ==
    { <<Str(<<"a", SP, "b">>), Str(<<"b", SP, "a">>)>>,
      <<Str(<<"a", SP, "a">>), Str(<<"b", SP, "b">>)>>,
      <<Str(<<"a">>)>> }

RauzyKargs(k, t) ==
    [has |-> k.has \cup {n \in Toggles : t[n] # Absent},
     reduced |-> k.reduced, flips |-> k.flips, alphabet |-> k.alphabet,
     toggles |-> t]

RauzyInputs ==
    (StepArgs \X KargsInputs \X FewToggles) \cup (FewArgs \X {NoKargs} \X ToggleInputs)

CallRauzyDiagram ==
    /\ pc = "idle"
    /\ \E in \in RauzyInputs :
          \E ord \in Orders(LettersOf(Tuple(in[1]))) :
             /\ args' = in[1]
             /\ kargs' = RauzyKargs(in[2], in[3])
             /\ outcome' = RauzyDiagram(in[1], RauzyKargs(in[2], in[3]), ord)
    /\ fn' = "RauzyDiagram"
    /\ pc' = "done"
    /\ UNCHANGED run

NextDiagram == CallRauzyDiagram \/ Finish

SpecDiagram == Init /\ [][NextDiagram]_vars

\* =================================================================
\* Permutations_iterator(nintervals=None, irreducible=True, reduced=False,
\*                       alphabet=None)
\* =================================================================
\* an int and the natural number it stands for
FromNat(n) == IF n = 0 THEN Zero ELSE PyInt(n)
ToNat(x) == IF x = Zero THEN 0 ELSE Index(Digit, x.v[1])

\* range(1, n + 1)
RangeFromOne(n) == List([i \in 1..ToNat(n) |-> FromNat(i)])

ZZ == Val("IntegerRing", <<>>, <<>>)
Infinity == Val("Infinity", <<>>, <<>>)

\* Alphabet(alphabet): the alphabet on the letters given, or on a whole set
AlphabetFrom(alphabet) ==
    IF alphabet = ZZ THEN Val("Alphabet", <<"ZZ">>, <<>>)
    ELSE Val("Alphabet", <<>>, ListOf(alphabet))

\* alphabet.cardinality()
Cardinality_(alphabet) ==
    IF alphabet.v = <<"ZZ">> THEN Infinity ELSE FromNat(Len(alphabet.xs))

\* the two engines
Iterator(cls, nintervals, irreducible, alphabet) ==
    Return("iterator", Val(cls, <<>>, <<nintervals, irreducible, alphabet>>))

\* lines 676-684
Engine(nintervals, irreducible, reduced, alphabet) ==
    IF Truthy(reduced)
    THEN Iterator("ReducedPermutationsIET_iterator", nintervals, irreducible, alphabet)
    ELSE Iterator("LabelledPermutationsIET_iterator", nintervals, irreducible, alphabet)

\* as Permutations_iterator, with the alphabet left unset when only the
\* length is given
Permutations_iteratorNoRange(nintervals, irreducible, reduced, alphabet) ==
    IF nintervals = None
    THEN IF alphabet = None
         THEN Raise("ValueError", "You must specify an alphabet or a length")
         ELSE LET al == AlphabetFrom(alphabet)
              IN  IF Cardinality_(al) = Infinity
                  THEN Raise("ValueError", "You must specify a length with infinite alphabet")
                  ELSE Engine(Cardinality_(al), irreducible, reduced, al)
    ELSE Engine(nintervals, irreducible, reduced, alphabet)

Permutations_iterator(nintervals, irreducible, reduced, alphabet) ==
    IF nintervals = None
    THEN IF alphabet = None
         THEN Raise("ValueError", "You must specify an alphabet or a length")
         ELSE LET al == AlphabetFrom(alphabet)
              IN  IF Cardinality_(al) = Infinity
                  THEN Raise("ValueError", "You must specify a length with infinite alphabet")
                  ELSE Engine(Cardinality_(al), irreducible, reduced, al)
    ELSE IF alphabet = None
    THEN Engine(nintervals, irreducible, reduced, RangeFromOne(nintervals))
    ELSE Engine(nintervals, irreducible, reduced, alphabet)

\* ---- inputs
IntervalsInputs == {None} \cup {FromNat(n) : n \in 0..MaxIntervals}
IteratorAlphabets ==
    {None, ZZ, Str(<<"a">>), Str(<<"a", "b">>), Str(<<"a", "b", "c">>),
     List(<<Str(<<"a">>), Str(<<"b">>)>>), List(<<PyInt(1), PyInt(2), PyInt(3)>>)}

CallPermutations_iterator ==
    /\ pc = "idle"
    /\ \E nintervals \in IntervalsInputs, irreducible \in {PyTrue, PyFalse, None},
          reduced \in {PyTrue, PyFalse}, alphabet \in IteratorAlphabets :
          /\ args' = <<nintervals, irreducible, reduced, alphabet>>
          /\ outcome' = Permutations_iterator(nintervals, irreducible, reduced, alphabet)
    /\ kargs' = NoKargs
    /\ fn' = "Permutations_iterator"
    /\ pc' = "done"
    /\ UNCHANGED run

NextIterator == CallPermutations_iterator \/ Finish

SpecIterator == Init /\ [][NextIterator]_vars

\* =================================================================
\* _two_lists called on its own
\* =================================================================
Chars == {"a", "b", SP, NL}
Strings(n) == {Str(cs) : cs \in UNION {[1..m -> Chars] : m \in 0..n}}

\* what a container may hold: strings, lists and tuples of tokens, a value
\* without length, a group-theoretic permutation
Leaves ==
    { Str(<<>>), Str(<<"a", SP, "b">>), Str(<<"a", NL, "b">>),
      List(<<>>), List(<<Str(<<"a">>), Str(<<"b">>)>>), Tuple(<<Str(<<"a">>)>>),
      PyInt(1), None, CombPerm(<<PyInt(2), PyInt(1)>>) }

Containers(E, n) ==
    UNION {{List(xs), Tuple(xs)} : xs \in UNION {[1..m -> E] : m \in 0..n}}

\* a container holding one container of at most three leaves
Nested == {List(<<c>>) : c \in Containers(Leaves, 3)} \cup {Tuple(<<c>>) : c \in Containers(Leaves, 2)}

NormalizerInputs ==
    Strings(MaxStrLen) \cup Leaves \cup Containers(Leaves, MaxContainerLen) \cup Nested
      \cup {CombPerm(p) : p \in UNION {OneLine(n) : n \in 0..(MaxAltLen + 2)}}

CallTwoLists ==
    /\ pc = "idle"
    /\ \E x \in NormalizerInputs :
          /\ args' = <<x>>
          /\ outcome' = TwoLists(x)
    /\ kargs' = NoKargs
    /\ fn' = "_two_lists"
    /\ pc' = "done"
    /\ UNCHANGED run

NextTwoLists == CallTwoLists \/ Finish

SpecTwoLists == Init /\ [][NextTwoLists]_vars

\* --------------------------------------------------------------- C11
arg == args[1]

\* the tokens of a line: the maximal runs without whitespace, in order
NoSpace(c) == c \notin {" ", "\n"}
RECURSIVE Flatten(_)
Flatten(toks) == IF toks = <<>> THEN <<>> ELSE Head(toks).v \o Flatten(Tail(toks))
RunStarts(line) ==
    {i \in 1..Len(line) : NoSpace(line[i]) /\ (i = 1 \/ ~NoSpace(line[i - 1]))}
IsSplitOf(toks, line) ==
    /\ \A i \in 1..Len(toks) :
          /\ toks[i].ty = "str" /\ toks[i].xs = <<>> /\ toks[i].v # <<>>
          /\ \A j \in 1..Len(toks[i].v) : NoSpace(toks[i].v[j])
    /\ Flatten(toks) = SelectSeq(line, NoSpace)
    /\ Len(toks) = Cardinality(RunStarts(line))

\* the result is a pair of exactly two rows
IsRowPair(v) ==
    /\ v.ty = "list" /\ Len(v.xs) = 2
    /\ v.xs[1].ty = "list" /\ v.xs[2].ty = "list"
ResultRow(i) == outcome.val.xs[i].xs

NewLines(cs) == {i \in 1..Len(cs) : cs[i] = "\n"}
IsSequence(x) == x.ty \in {"list", "tuple", "Permutation"}
IsRowLike(x) == x.ty = "str" \/ IsSequence(x)
IsContainer(x) == x.ty \in {"list", "tuple"}
HasNoLength(x) == x.ty \in {"int", "NoneType", "bool"}

\* the row made of one element of a pair
IsRowOf(r, e) == IF e.ty = "str" THEN IsSplitOf(r, e.v) ELSE r = e.xs

\* the rows of a group-theoretic permutation a of length n: 1..n and a(1..n)
IsPermutationRows(a) ==
    /\ Returned /\ IsRowPair(outcome.val)
    /\ Len(ResultRow(1)) = Len(a.xs) /\ ResultRow(2) = a.xs
    /\ \A i \in 1..Len(a.xs) : ResultRow(1)[i] = Val("int", <<Digit[i]>>, <<>>)

\* a pair of strings or sequences gives one row per element
IsPairRows(pair) ==
    /\ Returned /\ IsRowPair(outcome.val)
    /\ IsRowOf(ResultRow(1), pair.xs[1]) /\ IsRowOf(ResultRow(2), pair.xs[2])

CannotSplit == Raised("ValueError", "your argument can not be split in two parts")

\* the cases on which C11 as stated and as amended agree
C11_Common ==
    /\ Returned => IsRowPair(outcome.val)
    /\ outcome.kind \in {"return", "raise"}
    /\ arg.ty = "str" =>
          IF Cardinality(NewLines(arg.v)) = 1
          THEN LET i == CHOOSE j \in NewLines(arg.v) : TRUE
               IN  /\ Returned
                   /\ IsSplitOf(ResultRow(1), SubSeq(arg.v, 1, i - 1))
                   /\ IsSplitOf(ResultRow(2), SubSeq(arg.v, i + 1, Len(arg.v)))
          ELSE Raised("ValueError", "your chain must contain two lines")
    /\ arg.ty = "Permutation" => IsPermutationRows(arg)
    /\ HasNoLength(arg) => Raised("TypeError", "argument not accepted")
    /\ (IsContainer(arg) /\ Len(arg.xs) \notin {1, 2}) => CannotSplit
    /\ (IsContainer(arg) /\ Len(arg.xs) = 2 /\ IsRowLike(arg.xs[1]) /\ IsRowLike(arg.xs[2]))
          => IsPairRows(arg)
    /\ (IsContainer(arg) /\ Len(arg.xs) = 1 /\ arg.xs[1].ty = "Permutation")
          => IsPermutationRows(arg.xs[1])
    /\ (IsContainer(arg) /\ Len(arg.xs) = 1 /\ IsContainer(arg.xs[1])
          /\ Len(arg.xs[1].xs) = 2
          /\ IsRowLike(arg.xs[1].xs[1]) /\ IsRowLike(arg.xs[1].xs[2]))
          => IsPairRows(arg.xs[1])

\* a container of one element that is neither a permutation nor a pair
OneBadElement ==
    /\ IsContainer(arg) /\ Len(arg.xs) = 1
    /\ arg.xs[1].ty # "Permutation"
    /\ ~(IsContainer(arg.xs[1]) /\ Len(arg.xs[1].xs) = 2)

\* C11 as stated: _two_lists returns nothing but a pair of two rows; a
\* string succeeds iff it has two lines, else "must contain two lines"; a
\* permutation gives 1..n and its images; a value without length fails with
\* "argument not accepted"; a container of length 0 or more than 2 fails
\* with "can not be split in two parts"; a container of length 2 gives one
\* row per element; a container of length 1 succeeds iff its element is a
\* permutation or a pair, and fails with "can not be split in two parts"
\* otherwise.
C11_AsStated ==
    Called("_two_lists") => (C11_Common /\ (OneBadElement => CannotSplit))

\* C11 (amended): as above, but a container of length 1 whose element is a
\* list or tuple of length other than 2 fails with ValueError "your list
\* must contain two objects", and one whose element is anything else but a
\* permutation (a string, a value without length) fails with TypeError
\* "argument not accepted"; a pair with an element that is neither a string
\* nor a sequence fails with a TypeError.
C11_Normalize ==
    Called("_two_lists") =>
        /\ C11_Common
        /\ (OneBadElement /\ IsContainer(arg.xs[1]))
              => Raised("ValueError", "your list must contain two objects")
        /\ (OneBadElement /\ ~IsContainer(arg.xs[1]))
              => Raised("TypeError", "argument not accepted")
        /\ (IsContainer(arg) /\ Len(arg.xs) = 2
              /\ ~(IsRowLike(arg.xs[1]) /\ IsRowLike(arg.xs[2])))
              => outcome.kind = "raise" /\ outcome.exc = "TypeError"
        /\ (IsContainer(arg) /\ Len(arg.xs) = 1 /\ IsContainer(arg.xs[1])
              /\ Len(arg.xs[1].xs) = 2
              /\ ~(IsRowLike(arg.xs[1].xs[1]) /\ IsRowLike(arg.xs[1].xs[2])))
              => outcome.kind = "raise" /\ outcome.exc = "TypeError"

\* _two_lists(['a\nb']): one element, a string
C11_Witness ==
    /\ Called("_two_lists")
    /\ arg = List(<<Str(<<"a", NL, "b">>)>>)
    /\ Raised("TypeError", "argument not accepted")

\* _two_lists('a b\n a'): rows ['a', 'b'] and ['a']
C11_WitnessString ==
    /\ Called("_two_lists")
    /\ arg.ty = "str" /\ Len(arg.v) >= 3
    /\ Returned /\ Len(ResultRow(1)) = 2

\* --------------------------------------------------------------- C12
permutation == args[1]
lengths == args[2]

\* the permutation the lengths are checked against
Resolved == ResolvePermutation(permutation).kind = "return"
resolved == ResolvePermutation(permutation).val

IsMapping == lengths.ty = "dict"
MappedAt(p, i) == {j \in 1..Len(lengths.xs) : Rank(p, lengths.xs[j].xs[1]) = i - 1}

\* every key of the mapping is a letter of the permutation
KeysKnown ==
    \A j \in 1..Len(lengths.xs) :
        Rank(resolved, lengths.xs[j].xs[1]) \in 0..(PermLen(resolved) - 1)

\* the resolved length vector: the sequence as given; for a mapping each
\* value at the rank of its key and zero elsewhere
vector ==
    IF IsMapping
    THEN LET p == resolved
         IN  [i \in 1..PermLen(p) |->
                IF MappedAt(p, i) = {} THEN Zero
                ELSE lengths.xs[CHOOSE j \in MappedAt(p, i) : TRUE].xs[2]]
    ELSE lengths.xs

HasVector ==
    /\ Called("IntervalExchangeTransformation") /\ Resolved
    /\ lengths.ty \in {"list", "tuple", "dict"}
    /\ IsMapping => KeysKnown

IsNumeric(x) ==
    \/ x.ty \in {"int", "float"}
    \/ /\ x.ty = "str" /\ x.v # <<>>
       /\ Range(x.v) \subseteq {"0", "1", "2", "3", "4", "5", "6", "7", "8", "9"}
IsStrictlyPositive(x) ==
    IsNumeric(x) /\ x.v[1] # "-" /\ \E i \in 1..Len(x.v) : x.v[i] # "0"

BadEntries(l) == {i \in 1..Len(l) : ~IsStrictlyPositive(l[i])}
FirstBad(l) == CHOOSE i \in BadEntries(l) : \A j \in BadEntries(l) : i <= j

CannotConvert(x) ==
    outcome = RaiseAbout("TypeError", "unable to convert {!r} to a float", x)

OmitsLetter == IsMapping /\ Len(lengths.xs) < PermLen(resolved)

\* the entries are examined: the count matches and bad is the first entry
\* that is not a strictly positive number
Aborts(n, l, bad) == Len(l) = n /\ BadEntries(l) # {} /\ bad = l[FirstBad(l)]

\* the parts of C12 on which the claim as stated and as amended agree
C12_Common(p, n, l, bad) ==
    /\ Len(l) # n => Raised("ValueError", "bad number of lengths")
    /\ (Aborts(n, l, bad) /\ IsNumeric(bad))
          => Raised("ValueError", "lengths must be positive")
    /\ (Aborts(n, l, bad) /\ bad.ty = "str" /\ ~IsNumeric(bad)) => CannotConvert(bad)
    /\ OmitsLetter =>
          /\ outcome.kind = "raise"
          /\ (\A j \in 1..Len(lengths.xs) : IsStrictlyPositive(lengths.xs[j].xs[2]))
                => Raised("ValueError", "lengths must be positive")
    /\ Returned <=> (Len(l) = n /\ BadEntries(l) = {})
    /\ Returned =>
          outcome.val = Val("IntervalExchangeTransformation", <<>>, <<p, List(l)>>)

\* C12 as stated: the count is checked first ("bad number of lengths"
\* whatever the entries are); then the entries in position order, and the
\* first that is non-numeric (TypeError "unable to convert X to a float")
\* or not strictly positive (ValueError "lengths must be positive") aborts
\* the call; a mapping that omits a letter is always rejected; the object
\* is built only if the count matches and every entry is a strictly
\* positive number.
C12_AsStated ==
    HasVector =>
        LET p == resolved
            n == PermLen(p)
            l == vector
            bad == IF BadEntries(l) = {} THEN None ELSE l[FirstBad(l)]
        IN  /\ C12_Common(p, n, l, bad)
            /\ (Aborts(n, l, bad) /\ ~IsNumeric(bad)) => CannotConvert(bad)

\* C12 (amended): as stated, but the first bad entry fails with TypeError
\* "unable to convert X to a float" only when it is a string that is not
\* the text of a number; when it is neither a string nor a number the
\* TypeError is the one float() itself raises.
C12_LengthValidation ==
    HasVector =>
        LET p == resolved
            n == PermLen(p)
            l == vector
            bad == IF BadEntries(l) = {} THEN None ELSE l[FirstBad(l)]
        IN  /\ C12_Common(p, n, l, bad)
            /\ (Aborts(n, l, bad) /\ ~IsNumeric(bad) /\ bad.ty # "str")
                  => Raised("TypeError", "float() argument must be a string or a number")

\* IntervalExchangeTransformation(('a b','b a'), [1, None]): the count
\* matches, the first entry is good, the second is no string and no number
C12_Witness ==
    /\ HasVector /\ ~IsMapping
    /\ Len(vector) = 2 /\ PermLen(resolved) = 2
    /\ BadEntries(vector) = {2} /\ vector[2] = None
    /\ outcome.kind = "raise" /\ outcome.exc = "TypeError"

\* a mapping that omits a letter
C12_WitnessMapping ==
    /\ HasVector /\ OmitsLetter /\ Len(lengths.xs) = 1
    /\ Raised("ValueError", "lengths must be positive")

\* a wrong count with a non-numeric first entry
C12_WitnessCount ==
    /\ HasVector /\ Len(vector) = 3 /\ PermLen(resolved) = 2
    /\ ~IsNumeric(vector[1])
    /\ Raised("ValueError", "bad number of lengths")

\* the object is built
C12_WitnessBuilt == HasVector /\ Returned /\ Len(vector) = 3

\* --------------------------------------------------------------- C13
\* what the checks establish about the rows of the call
NormalizationPassed == Normalizes /\ ReducedWellTyped
FlipCheckPassed == FlipsKnown
MultiplicityPassed ==
    IF fn = "Permutation" THEN ~SomeLetterNotOnce ELSE ~SomeLetterNotTwice
AdmissibilityPassed ==
    fn = "GeneralizedPermutation" => ((residual0 = <<>>) <=> (residual1 = <<>>))

ChecksOf(f) ==
    {"normalize", "flips", "letters"} \cup
    (IF f = "GeneralizedPermutation" THEN {"admissible"} ELSE {})

\* C13: on the fresh-build path of Permutation and GeneralizedPermutation
\* (the degenerate delegation included) a variant constructor is invoked at
\* most once, and only after normalization, the flip check, the
\* multiplicity check and, for GeneralizedPermutation, the admissibility
\* check have passed; when a check fails no constructor has been invoked
\* and no object is returned.
C13_EagerValidation ==
    (fn \in Factories /\ Fresh) =>
        /\ run.built <= 1
        /\ run.built = 1 =>
              /\ ChecksOf(fn) \subseteq run.passed
              /\ NormalizationPassed /\ FlipCheckPassed
              /\ MultiplicityPassed /\ AdmissibilityPassed
              /\ pc = "done" /\ Returned /\ outcome.via = "construct"
        /\ pc # "done" => (run.built = 0 /\ outcome = NoOutcome)
        /\ (pc = "done" /\ ~Returned) =>
              /\ run.built = 0
              /\ outcome.kind = "raise" /\ outcome.val = None
        /\ (pc = "done" /\ Returned) => run.built = 1
        /\ (pc = "done" /\ ~(NormalizationPassed /\ FlipCheckPassed
                             /\ MultiplicityPassed /\ AdmissibilityPassed))
              => (run.built = 0 /\ ~Returned)

\* the steps end where the factory taken as a whole ends
StepsAgree ==
    (pc = "done" /\ fn \in Factories) =>
        IF fn = "Permutation" THEN outcome = Permutation(args, kargs)
        ELSE \E ord \in Orders(LettersOf(Raw(args))) :
                outcome = GeneralizedPermutation(args, kargs, ord)

\* C13, on the steps: the constructor is invoked from a state in which all
\* the checks are already passed and nothing has been constructed
C13_OnlyAfterChecks ==
    [][(run'.built > run.built /\ Fresh)
          => (run.built = 0 /\ ChecksOf(fn) \subseteq run.passed)]_vars

\* GeneralizedPermutation('a', 'a'): the degenerate case, handed over to
\* Permutation, which constructs once
C13_Witness ==
    /\ Called("GeneralizedPermutation") /\ Fresh
    /\ run.frame = "Permutation" /\ run.built = 1
    /\ Returned /\ outcome.val.ty \in ExchangeClasses

\* a check fails after another has passed
C13_WitnessFails ==
    /\ pc = "done" /\ fn \in Factories /\ Fresh
    /\ "flips" \in run.passed /\ outcome.kind = "raise" /\ run.built = 0

\* a generalized variant constructed
C13_WitnessGeneralized ==
    /\ Called("GeneralizedPermutation") /\ Fresh
    /\ run.frame = "GeneralizedPermutation" /\ run.built = 1 /\ FlipsRequested

\* --------------------------------------------------------------- C14
\* the options of the caller, the toggles left out
OptionsGiven ==
    Kargs(kargs.has \ Toggles, kargs.reduced, kargs.flips, kargs.alphabet)

\* the toggle forwarded: the caller's value, else the default
Forwarded(name, default) ==
    IF name \in kargs.has THEN kargs.toggles[name] ELSE default

\* the one diagram requested from p
DiagramOf(p) ==
    /\ Returned /\ outcome.via = "rauzy_diagram"
    /\ outcome.val.ty = "RauzyDiagram"
    /\ outcome.val.xs =
          <<p, Forwarded("right_induction", PyTrue), Forwarded("left_induction", PyFalse),
            Forwarded("left_right_inversion", PyFalse),
            Forwarded("top_bottom_inversion", PyFalse), Forwarded("symmetric", PyFalse)>>

\* the outcome of RauzyDiagram is the outcome g of GeneralizedPermutation,
\* a diagram requested from the permutation when there is one
Follows(g) ==
    IF g.kind = "raise" THEN outcome = g ELSE DiagramOf(g.val)

\* C14 as stated: for every raw input (two rows, one two-line string, one
\* pair, an existing permutation object) and every option, RauzyDiagram
\* fails exactly when GeneralizedPermutation fails on the same input and
\* options, with the same error and no diagram requested; otherwise one
\* diagram is requested from the permutation GeneralizedPermutation
\* returns, the five toggles forwarded unchanged with their defaults.
C14_AsStated ==
    Called("RauzyDiagram") =>
        \E ord \in Orders(LettersOf(Raw(args))) :
            Follows(GeneralizedPermutation(args, OptionsGiven, ord))

\* what holds: the same, for two row arguments and for a single pair
C14_OnRows ==
    (Called("RauzyDiagram")
       /\ (Len(args) = 2 \/ (Len(args) = 1 /\ args[1].ty \in {"list", "tuple"}
                                              /\ Len(args[1].xs) = 2))) =>
        \E ord \in Orders(LettersOf(Raw(args))) :
            Follows(GeneralizedPermutation(args, OptionsGiven, ord))

\* RauzyDiagram('a b', 'b a', left_induction=True, ...)
C14_WitnessOnRows ==
    /\ Called("RauzyDiagram") /\ Len(args) = 2
    /\ "left_induction" \in kargs.has /\ "symmetric" \notin kargs.has
    /\ DiagramOf(outcome.val.xs[1])

\* --------------------------------------------------------------- C15
nintervals == args[1]
irreducible == args[2]
reduced == args[3]
alphabet == args[4]

\* the request an engine receives
EngineCalled(cls, n, al) ==
    /\ Returned /\ outcome.via = "iterator"
    /\ outcome.val.ty = cls
    /\ outcome.val.xs = <<n, irreducible, al>>

EngineOf == IF reduced = PyTrue THEN "ReducedPermutationsIET_iterator"
            ELSE "LabelledPermutationsIET_iterator"

\* the number of letters of a finite alphabet
LetterCount(al) == IF al.ty = "str" THEN Len(al.v) ELSE Len(al.xs)
LettersIn(al) == IF al.ty = "str" THEN [i \in 1..Len(al.v) |-> Str(<<al.v[i]>>)] ELSE al.xs

\* n stands for the number k; al is the alphabet 1..k
Stands(n, k) == n = (<<Zero, PyInt(1), PyInt(2), PyInt(3), PyInt(4), PyInt(5)>>)[k + 1]
IsOneTo(al, k) ==
    /\ al.ty = "list" /\ Len(al.xs) = k
    /\ \A i \in 1..k : Stands(al.xs[i], i)

\* C15: with nintervals and alphabet unset the call raises ValueError; with
\* nintervals unset and an infinite alphabet it raises ValueError; with
\* nintervals unset and a finite alphabet the cardinality becomes
\* nintervals; with nintervals set and alphabet unset the alphabet is 1 to
\* nintervals; in every other case one engine is invoked, the reduced one
\* iff reduced is true, with the resolved size, the irreducible flag of the
\* caller and the resolved alphabet; no engine is invoked when it raises.
C15_Resolution ==
    Called("Permutations_iterator") =>
        /\ (nintervals = None /\ alphabet = None)
              => Raised("ValueError", "You must specify an alphabet or a length")
        /\ (nintervals = None /\ alphabet = ZZ)
              => Raised("ValueError", "You must specify a length with infinite alphabet")
        /\ (nintervals = None /\ alphabet \notin {None, ZZ}) =>
              /\ Returned /\ outcome.val.ty = EngineOf
              /\ Stands(outcome.val.xs[1], LetterCount(alphabet))
              /\ outcome.val.xs[2] = irreducible
              /\ outcome.val.xs[3].ty = "Alphabet"
              /\ outcome.val.xs[3].xs = LettersIn(alphabet)
        /\ (nintervals # None /\ alphabet = None) =>
              /\ EngineCalled(EngineOf, nintervals, outcome.val.xs[3])
              /\ \E k \in 0..(MaxIntervals + 1) :
                    Stands(nintervals, k) /\ IsOneTo(outcome.val.xs[3], k)
        /\ (nintervals # None /\ alphabet # None)
              => EngineCalled(EngineOf, nintervals, alphabet)
        /\ outcome.kind \in {"raise", "return"}
        /\ outcome.kind = "raise" => outcome.val = None
        /\ Returned => outcome.via = "iterator"

\* Permutations_iterator(3, reduced=True): the reduced engine on 1, 2, 3
C15_Witness ==
    /\ Called("Permutations_iterator")
    /\ nintervals = PyInt(3) /\ alphabet = None /\ reduced = PyTrue
    /\ EngineCalled("ReducedPermutationsIET_iterator", PyInt(3),
                    List(<<PyInt(1), PyInt(2), PyInt(3)>>))

\* Permutations_iterator(alphabet="abc"): three intervals
C15_WitnessAlphabet ==
    /\ Called("Permutations_iterator")
    /\ nintervals = None /\ alphabet = Str(<<"a", "b", "c">>)
    /\ Returned /\ outcome.val.xs[1] = PyInt(3)

\* Permutations_iterator(alphabet=ZZ)
C15_WitnessInfinite ==
    /\ Called("Permutations_iterator") /\ alphabet = ZZ /\ nintervals = None
    /\ outcome.kind = "raise"

\* --------------------------------------------------------------- C16
\* the permutation handed to the constructor of the dynamical object
handed == outcome.val.xs[1]

IsFlippedArgument == permutation.ty \in FlippedClasses

\* the flipped argument is refused before anything else is looked at
FlippedRefused ==
    IsFlippedArgument => Raised("TypeError", "flips are not yet implemented")

C16_OnRowsAndLabelled ==
    Called("IntervalExchangeTransformation") =>
        /\ FlippedRefused
        /\ (Returned /\ (~IsObject(permutation) \/ permutation.ty = "LabelledPermutationIET"))
              => handed.ty = "LabelledPermutationIET"
        /\ (Returned /\ permutation.ty = "LabelledPermutationIET") => handed = permutation
        /\ (Returned /\ IsObject(permutation) /\ permutation.ty # "LabelledPermutationIET")
              => handed.ty \in {"ReducedPermutationIET", "LabelledPermutationLI"}

\* a reduced exchange permutation with good lengths:
\* the object is built on a reduced permutation
C16_WitnessReduced ==
    /\ Called("IntervalExchangeTransformation")
    /\ permutation.ty = "ReducedPermutationIET"
    /\ Returned /\ handed.ty = "ReducedPermutationIET"

\* a flipped permutation with a bad count of lengths
C16_WitnessFlipped ==
    /\ Called("IntervalExchangeTransformation")
    /\ IsFlippedArgument /\ lengths = List(<<>>)
    /\ Raised("TypeError", "flips are not yet implemented")

====
